---- MODULE Spec2Model ----
(***************************************************************************)
(* A model of the write path of sea-streamer's file backend.               *)
(*                                                                         *)
(*   Spec          FileSink (sea-streamer-file/src/sink.rs): one caller    *)
(*                 owning the sink, the spawned sink task, the watcher.    *)
(*   ProducerSpec  FileProducer handles (sea-streamer-file/src/producer/   *)
(*                 mod.rs) feeding the shared request channel, and the     *)
(*                 dispatcher behind it.                                   *)
(*   StdioSpec     StdioProducer (sea-streamer-stdio/src/producer.rs): the *)
(*                 THREAD and PRODUCERS statics, the stdout threads.       *)
(*                                                                         *)
(* A byte is the pair <<id, j>>: the j-th byte of the payload of the call  *)
(* number id on the sink (id 0: the bytes the file held at construction).  *)
(***************************************************************************)
EXTENDS Integers, Sequences, FiniteSets, TLC

\* ------------------------------------------------------------------ bounds
MaxQuota == 2      \* largest configured quota
MaxInit == 1       \* largest size of the file handed to FileSink::new
MaxLen == 2        \* longest payload of one write
MaxCalls == 2      \* calls of write / flush / sync_all on one sink
MaxEvents == 1     \* events the watcher emits
MaxMarker == 1     \* largest marker a caller passes to flush
MarkerWidth == 2   \* width of a marker in bits (u32 in the source)
MaxHandles == 2    \* FileProducer values ever made (new_producer and clone)
MaxSends == 3       \* send_to calls made in all
MaxChan == 2        \* requests waiting in the request channel at once
MaxThreads == 2    \* stdout threads ever spawned
MaxReqs == 3       \* calls of send_to, flush, end and drop made in all,
                   \* where the futures are followed to their end
MaxTakes == 4      \* calls of FileErr::take on one value
MaxContent == 2    \* payloads of a FileErr variant are 0..MaxContent
MaxSize == 3       \* largest size of the file handed to FileSink::new where
                   \* the file may be larger than the quota
QuotaWidth == 4    \* width of the quota in bits (u64 in the source)

VARIABLES
    \* ---- FileSink
    limit,          \* the `quota` argument of FileSink::new
    file,           \* the file's content
    quota,          \* the task's `quota` local: what may still be appended
    pending,        \* the request channel (sender -> pending)
    pendingAlive,   \* the receiver `pending` has not been dropped
    updQ,           \* updates handed over to the update channel, not yet taken
    offer,          \* the update the task is blocked on in send_async
    events,         \* the watcher's event channel (watch -> event)
    nEvents,        \* events emitted so far
    watcherAlive,   \* FileSink.watcher is Some
    sinkAlive,      \* the FileSink has not been dropped
    taskPc,         \* where the spawned task stands
    termErr,        \* the terminal FileErr of the task, once it has one
    callerPc,       \* what the owner of the sink is doing
    callLog,        \* the calls made on the sink, in order
    lastResult,     \* how the latest call ended
    lastDone,       \* history: the latest request the task has served in full
    removedAt,      \* history: the number of calls made when the watcher
                    \* emitted Remove for a file whose writes were all served,
                    \* -1 before that
    \* ---- FileProducer and the dispatcher
    handles,        \* the FileProducer values made so far: state and file_id
    stamp,          \* per handle: the Timestamp::now_utc() of a send_to that
                    \* has not reached sender.send yet
    sent,           \* per handle: send_to calls made
    clock,          \* Timestamp::now_utc()
    chan,           \* the shared request channel of RequestTo
    count,          \* per file_id: the handle count of its writer entry
    log,            \* per file_id: the records appended, in order
    entered,        \* history: the Send requests in the order they entered chan
    chanOpen,       \* the receiver of the shared request channel is alive
    futs,           \* the calls of send_to and flush, with the reply channel
                    \* of each
    endFut,         \* per handle: the reply channel of its end
    \* ---- StdioProducer and the stdout thread
    THREAD,         \* the THREAD static: 0 for None, else the stdout thread
                    \* whose channel the stored sender feeds
    sequences,      \* PRODUCERS.sequences: StreamKey -> next SequenceNo
    holder,         \* the stdout thread holding the PRODUCERS mutex, 0: free
    tpc,            \* per stdout thread: where it stands
    signals,        \* per stdout thread: its channel of Signal
    printed,        \* the lines printed to stdout, in order
    sprod,          \* the StdioProducer values: state and `request` sender
    sfut,           \* the SendFutures of the stdio send_to calls
    spanic,         \* a caller of new / shutdown has panicked: where
    \* anchoring a producer to a stream key (file, stdio and kafka producers)
    self_stream,    \* per producer: its `stream` field, None or a StreamKey
    anchoredTo,     \* per producer: the key of the first anchor that succeeded
    lastAnchor,     \* per producer: the last call of anchor / anchored and
                    \* what it returned
    \* a FileErr held in place and taken with FileErr::take
    slot,           \* the FileErr `self` refers to
    takes,          \* what the calls of take returned, in order
    \* one KafkaProducer and its transactional calls
    inner,          \* the `inner` field: "Some" or "None"
    running,        \* the transactional call whose future is being awaited,
                    \* "none" when there is none
    lastKafka       \* the last call that returned or panicked, and how

sinkVars == <<limit, file, quota, pending, pendingAlive, updQ, offer, events,
              nEvents, watcherAlive, sinkAlive, taskPc, termErr, callerPc,
              callLog, lastResult, lastDone, removedAt>>

prodVars == <<handles, stamp, sent, clock, chan, count, log, entered, chanOpen,
              futs, endFut>>

stdioVars == <<THREAD, sequences, holder, tpc, signals, printed, sprod, sfut,
               spanic>>

anchorVars == <<self_stream, anchoredTo, lastAnchor>>

errVars == <<slot, takes>>

kafkaVars == <<inner, running, lastKafka>>

vars == <<sinkVars, prodVars, stdioVars, anchorVars, errVars, kafkaVars>>

\* what the steps of one part leave alone
notSink == <<prodVars, stdioVars, anchorVars, errVars, kafkaVars>>
notProd == <<sinkVars, stdioVars, anchorVars, errVars, kafkaVars>>
notStdio == <<sinkVars, prodVars, anchorVars, errVars, kafkaVars>>
notAnchor == <<sinkVars, prodVars, stdioVars, errVars, kafkaVars>>
notErr == <<sinkVars, prodVars, stdioVars, anchorVars, kafkaVars>>
notKafka == <<sinkVars, prodVars, stdioVars, anchorVars, errVars>>

None == "None"

\* u32::MAX, the marker of a SyncAll receipt
U32_MAX == 2^MarkerWidth - 1

\* markers a caller passes to flush: below MAX, which is reserved for sync_all
Markers == 0..MaxMarker

FileEvent == {"Modify", "Remove", "Error", "Rewatch"}

Min(a, b) == IF a < b THEN a ELSE b

\* Bytes::pop(n): the first n bytes
Pop(bytes, n) == SubSeq(bytes, 1, n)

\* the payload of call number id, n bytes long
Payload(id, n) == [j \in 1..n |-> <<id, j>>]

\* ------------------------------------------------------------ the channels
\* Update::Receipt(m) and Update::FileErr(e)
Receipt(m) == [type |-> "Receipt", val |-> m]
FileErrUpd(e) == [type |-> "FileErr", val |-> e]

\* what a receive on the update channel finds, in order: the updates already
\* handed over, then the one the task is blocked on (flume pulls a blocked
\* sender's message only when the queue is empty)
Avail == updQ \o offer

\* the caller is parked in update.recv_async()
CallerAwaiting == callerPc \in {"flush", "sync_all"}

\* the index of the first Update::FileErr of q, 0 when there is none
RECURSIVE FirstErr(_, _)
FirstErr(q, i) ==
    IF i > Len(q) THEN 0
    ELSE IF q[i].type = "FileErr" THEN i
    ELSE FirstErr(q, i + 1)

\* n updates are received: they leave the channel, and a task whose blocked
\* send was among them goes on (after a receipt to the watcher drain, after
\* send_error to the end of the task)
Take(n) ==
    /\ updQ' = SubSeq(updQ, n + 1, Len(updQ))
    /\ IF n > Len(updQ)
       THEN /\ offer' = <<>>
            /\ taskPc' = IF offer[1].type = "Receipt" THEN "drain" ELSE "done"
       ELSE UNCHANGED <<offer, taskPc>>

\* the largest marker a flush call has used so far
LastMarker ==
    LET used == {callLog[i].arg : i \in {j \in 1..Len(callLog) : callLog[j].op = "flush"}}
    IN IF used = {} THEN -1 ELSE CHOOSE m \in used : \A x \in used : x <= m

\* ---------------------------------------------------------------- FileSink
SinkInit ==
    /\ limit \in 0..MaxQuota
    /\ \E s0 \in 0..Min(limit, MaxInit) :
          /\ file = Payload(0, s0)
          /\ quota = limit - s0
    /\ pending = <<>>
    /\ pendingAlive = TRUE
    /\ updQ = <<>>
    /\ offer = <<>>
    /\ events = <<>>
    /\ nEvents = 0
    /\ watcherAlive = TRUE
    /\ sinkAlive = TRUE
    /\ taskPc = "recv"
    /\ termErr = None
    /\ callerPc = "idle"
    /\ callLog = <<>>
    /\ lastResult = None
    /\ lastDone = 0
    /\ removedAt = -1

\* return_err: drop the watcher, then try_recv until an Update::FileErr comes;
\* an empty or disconnected update channel panics
ReturnErr ==
    /\ watcherAlive' = FALSE
    /\ LET k == FirstErr(Avail, 1) IN
         IF k > 0
         THEN /\ Take(k)
              /\ lastResult' = Avail[k].val
              /\ callerPc' = "idle"
         ELSE /\ Take(Len(Avail))
              /\ lastResult' = "PanicNoError"
              /\ callerPc' = "panicked"
    /\ UNCHANGED <<limit, file, quota, pending, pendingAlive, events, nEvents,
                   sinkAlive, termErr, lastDone, removedAt>>

\* mutant of Enqueue: the request jumps the queue
EnqueueFront(req) == <<req>> \o pending

\* sender.send(request) succeeded
Enqueue(req) == Append(pending, req)

\* ByteSink::write
Write(n) ==
    /\ callerPc = "idle" /\ sinkAlive
    /\ UNCHANGED notSink
    /\ Len(callLog) < MaxCalls
    /\ callLog' = Append(callLog, [op |-> "write", arg |-> n])
    /\ LET id == Len(callLog) + 1 IN
         IF pendingAlive
         THEN /\ pending' = Enqueue([type |-> "Bytes", id |-> id, bytes |-> Payload(id, n)])
              /\ lastResult' = "Ok"
              /\ UNCHANGED <<limit, file, quota, pendingAlive, updQ, offer, events,
                             nEvents, watcherAlive, sinkAlive, taskPc, termErr, callerPc,
                             lastDone, removedAt>>
         ELSE ReturnErr

\* FileSink::flush up to its await
Flush(m) ==
    /\ callerPc = "idle" /\ sinkAlive
    /\ UNCHANGED notSink
    /\ Len(callLog) < MaxCalls
    /\ m > LastMarker
    /\ callLog' = Append(callLog, [op |-> "flush", arg |-> m])
    /\ LET id == Len(callLog) + 1 IN
         IF pendingAlive
         THEN /\ pending' = Enqueue([type |-> "Flush", id |-> id, marker |-> m])
              /\ callerPc' = "flush"
              /\ lastResult' = "Pending"
              /\ UNCHANGED <<limit, file, quota, pendingAlive, updQ, offer, events,
                             nEvents, watcherAlive, sinkAlive, taskPc, termErr,
                             lastDone, removedAt>>
         ELSE ReturnErr

\* FileSink::sync_all up to its await
SyncAll ==
    /\ callerPc = "idle" /\ sinkAlive
    /\ UNCHANGED notSink
    /\ Len(callLog) < MaxCalls
    /\ callLog' = Append(callLog, [op |-> "sync_all", arg |-> U32_MAX])
    /\ LET id == Len(callLog) + 1 IN
         IF pendingAlive
         THEN /\ pending' = Enqueue([type |-> "SyncAll", id |-> id])
              /\ callerPc' = "sync_all"
              /\ lastResult' = "Pending"
              /\ UNCHANGED <<limit, file, quota, pendingAlive, updQ, offer, events,
                             nEvents, watcherAlive, sinkAlive, taskPc, termErr,
                             lastDone, removedAt>>
         ELSE ReturnErr

\* the match of FileSink::flush on what update.recv_async() gave
FlushResolve ==
    /\ callerPc = "flush"
    /\ UNCHANGED notSink
    /\ IF Avail # <<>>
       THEN LET msg == Avail[1] IN
            /\ Take(1)
            /\ IF msg.type = "Receipt"
               THEN IF msg.val = callLog[Len(callLog)].arg
                    THEN lastResult' = "Ok" /\ callerPc' = "idle"
                    ELSE lastResult' = "PanicAssert" /\ callerPc' = "panicked"
               ELSE lastResult' = msg.val /\ callerPc' = "idle"
       ELSE /\ taskPc = "done"
            /\ lastResult' = "TaskDead"
            /\ callerPc' = "idle"
            /\ UNCHANGED <<updQ, offer, taskPc>>
    /\ UNCHANGED <<limit, file, quota, pending, pendingAlive, events, nEvents,
                   watcherAlive, sinkAlive, termErr, callLog, lastDone, removedAt>>

\* one turn of the loop of FileSink::sync_all
SyncAllResolve ==
    /\ callerPc = "sync_all"
    /\ UNCHANGED notSink
    /\ IF Avail # <<>>
       THEN LET msg == Avail[1] IN
            /\ Take(1)
            /\ IF msg.type = "Receipt"
               THEN IF msg.val = U32_MAX
                    THEN lastResult' = "Ok" /\ callerPc' = "idle"
                    ELSE UNCHANGED <<lastResult, callerPc>>
               ELSE lastResult' = msg.val /\ callerPc' = "idle"
       ELSE /\ taskPc = "done"
            /\ lastResult' = "TaskDead"
            /\ callerPc' = "idle"
            /\ UNCHANGED <<updQ, offer, taskPc>>
    /\ UNCHANGED <<limit, file, quota, pending, pendingAlive, events, nEvents,
                   watcherAlive, sinkAlive, termErr, callLog, lastDone, removedAt>>

\* the future of flush or sync_all is dropped while it awaits its update
Abandon ==
    /\ CallerAwaiting
    /\ UNCHANGED notSink
    /\ callerPc' = "idle"
    /\ lastResult' = "Abandoned"
    /\ UNCHANGED <<limit, file, quota, pending, pendingAlive, updQ, offer, events,
                   nEvents, watcherAlive, sinkAlive, taskPc, termErr, callLog,
                   lastDone, removedAt>>

\* the FileSink is dropped: sender, update and watcher go; a task blocked in
\* send_async gets an error and leaves its loop
DropSink ==
    /\ callerPc \in {"idle", "panicked"} /\ sinkAlive
    /\ UNCHANGED notSink
    /\ sinkAlive' = FALSE
    /\ watcherAlive' = FALSE
    /\ callerPc' = "dropped"
    /\ updQ' = <<>>
    /\ offer' = <<>>
    /\ IF taskPc = "blocked"
       THEN taskPc' = "done" /\ pendingAlive' = FALSE /\ pending' = <<>>
       ELSE UNCHANGED <<taskPc, pendingAlive, pending>>
    /\ UNCHANGED <<limit, file, quota, events, nEvents, termErr, callLog, lastResult,
                   lastDone, removedAt>>

\* ----------------------------------------------------------- the sink task
\* std::mem::drop(pending), with the error that send_error is about to send
DropPending(e) ==
    /\ pendingAlive' = FALSE
    /\ pending' = <<>>
    /\ termErr' = e
    /\ taskPc' = "sendErr"

\* mutant of SendUpdate: the send waits for a receiver although the FileSink
\* is gone
SendUpdateWaits(msg, next) ==
    IF CallerAwaiting /\ Avail = <<>>
    THEN /\ updQ' = <<msg>>
         /\ taskPc' = next
         /\ UNCHANGED offer
    ELSE /\ offer' = <<msg>>
         /\ taskPc' = "blocked"
         /\ UNCHANGED updQ

\* notify.send_async(msg): it fails when the FileSink is gone, it completes at
\* once when the caller is parked in recv_async with nothing queued, and it
\* blocks otherwise (the update channel is bounded(0)). `next` is where the
\* task goes once the send has completed
SendUpdate(msg, next) ==
    IF ~sinkAlive
    THEN /\ taskPc' = "done"
         /\ UNCHANGED <<updQ, offer>>
    ELSE IF CallerAwaiting /\ Avail = <<>>
    THEN /\ updQ' = <<msg>>
         /\ taskPc' = next
         /\ UNCHANGED offer
    ELSE /\ offer' = <<msg>>
         /\ taskPc' = "blocked"
         /\ UNCHANGED updQ

\* mutants of Cut: no cut at all; the cut taken from the wrong end
CutNever(bytes) == bytes
CutTail(bytes) ==
    IF quota < Len(bytes)
    THEN SubSeq(bytes, Len(bytes) - quota + 1, Len(bytes))
    ELSE bytes

\* Request::Bytes, the cut to the quota: what is written of `bytes`
Cut(bytes) == IF quota < Len(bytes) THEN Pop(bytes, quota) ELSE bytes

\* mutant of CutLen: nothing is taken off the quota
CutLenKeep(bytes) == 0

\* Request::Bytes, `len`: what is taken off the quota
CutLen(bytes) == IF quota < Len(bytes) THEN quota ELSE Len(bytes)

\* Request::Bytes: cut to the quota, write_all, count down, stop at zero.
\* `rest` is what the request channel holds behind this request
DoBytes(id, bytes, rest) ==
    \/ \* write_all fails, after any part of the bytes reached the file
       /\ \E k \in 0..Len(Cut(bytes)) : file' = file \o SubSeq(Cut(bytes), 1, k)
       /\ DropPending("IoError")
       /\ UNCHANGED <<quota, updQ, offer, lastDone>>
    \/ /\ file' = file \o Cut(bytes)
       /\ quota' = quota - CutLen(bytes)
       /\ IF quota - CutLen(bytes) = 0
          THEN /\ DropPending("FileLimitExceeded")
               /\ lastDone' = IF quota < Len(bytes) THEN lastDone ELSE id
          ELSE /\ taskPc' = "drain"
               /\ pending' = rest
               /\ lastDone' = id
               /\ UNCHANGED <<pendingAlive, termErr>>
       /\ UNCHANGED <<updQ, offer>>

\* Request::Flush(marker) and Request::SyncAll (marker u32::MAX): flush or
\* fsync the file, then send the receipt
DoFlush(id, marker, rest) ==
    \/ /\ DropPending("IoError")
       /\ UNCHANGED <<file, quota, updQ, offer, lastDone>>
    \/ /\ SendUpdate(Receipt(marker), "drain")
       /\ IF ~sinkAlive
          THEN pendingAlive' = FALSE /\ pending' = <<>>
          ELSE pending' = rest /\ UNCHANGED pendingAlive
       /\ lastDone' = id
       /\ UNCHANGED <<file, quota, termErr>>

\* pending.recv_async() gave a request
TaskRecv ==
    /\ taskPc = "recv" /\ pending # <<>>
    /\ UNCHANGED notSink
    /\ LET request == Head(pending) IN
         CASE request.type = "Bytes" -> DoBytes(request.id, request.bytes, Tail(pending))
           [] request.type = "Flush" -> DoFlush(request.id, request.marker, Tail(pending))
           [] request.type = "SyncAll" -> DoFlush(request.id, U32_MAX, Tail(pending))
    /\ UNCHANGED <<limit, events, nEvents, watcherAlive, sinkAlive, callerPc,
                   callLog, lastResult, removedAt>>

\* pending.recv_async() gave Err: the FileSink and its sender are gone
TaskRecvClosed ==
    /\ taskPc = "recv" /\ pending = <<>> /\ ~sinkAlive
    /\ UNCHANGED notSink
    /\ taskPc' = "done"
    /\ pendingAlive' = FALSE
    /\ UNCHANGED <<limit, file, quota, pending, updQ, offer, events, nEvents,
                   watcherAlive, sinkAlive, termErr, callerPc, callLog, lastResult,
                   lastDone, removedAt>>

\* send_error reaches its send_async
TaskSendErr ==
    /\ taskPc = "sendErr"
    /\ UNCHANGED notSink
    /\ SendUpdate(FileErrUpd(termErr), "done")
    /\ UNCHANGED <<limit, file, quota, pending, pendingAlive, events, nEvents,
                   watcherAlive, sinkAlive, termErr, callerPc, callLog, lastResult,
                   lastDone, removedAt>>

\* mutant of OnEvent: a Modify event is taken for the removal of the file
OnEventModifyFatal(e) ==
    CASE e = "Modify" -> "FileRemoved"
      [] e = "Remove" -> "FileRemoved"
      [] e = "Error" -> "WatchError"
      [] e = "Rewatch" -> "exit"

\* the arms of `match event.try_recv()` for Ok(event): go on with the loop,
\* stop with a FileErr, or leave the task without one
OnEvent(e) ==
    CASE e = "Modify" -> "continue"
      [] e = "Remove" -> "FileRemoved"
      [] e = "Error" -> "WatchError"
      [] e = "Rewatch" -> "exit"

\* one event.try_recv() of the loop that follows each request
TaskDrain ==
    /\ taskPc = "drain"
    /\ UNCHANGED notSink
    /\ IF events # <<>>
       THEN /\ events' = Tail(events)
            /\ CASE OnEvent(Head(events)) = "continue" ->
                      UNCHANGED <<taskPc, pending, pendingAlive, termErr>>
                 [] OnEvent(Head(events)) \in {"FileRemoved", "WatchError"} ->
                      DropPending(OnEvent(Head(events)))
                 [] OnEvent(Head(events)) = "exit" ->
                      /\ taskPc' = "done"
                      /\ pendingAlive' = FALSE
                      /\ pending' = <<>>
                      /\ UNCHANGED termErr
       ELSE /\ UNCHANGED events
            /\ IF watcherAlive
               THEN taskPc' = "recv" /\ UNCHANGED <<pending, pendingAlive, termErr>>
               ELSE /\ taskPc' = "done"
                    /\ pendingAlive' = FALSE
                    /\ pending' = <<>>
                    /\ UNCHANGED termErr
    /\ UNCHANGED <<limit, file, quota, updQ, offer, nEvents, watcherAlive,
                   sinkAlive, callerPc, callLog, lastResult, lastDone, removedAt>>

\* ------------------------------------------------------------- the watcher
\* a write of at least one byte was made, every write made so far has been
\* served and the sink is at rest: the task waits for a request, none is queued, no call is under way
WritesServed ==
    /\ \E i \in 1..Len(callLog) : callLog[i].op = "write" /\ callLog[i].arg > 0
    /\ taskPc = "recv" /\ pending = <<>> /\ callerPc = "idle"

WatcherEmit(e) ==
    /\ watcherAlive
    /\ UNCHANGED notSink
    /\ nEvents < MaxEvents
    /\ events' = Append(events, e)
    /\ nEvents' = nEvents + 1
    /\ removedAt' = IF e = "Remove" /\ WritesServed /\ removedAt = -1
                    THEN Len(callLog) ELSE removedAt
    /\ UNCHANGED <<limit, file, quota, pending, pendingAlive, updQ, offer,
                   watcherAlive, sinkAlive, taskPc, termErr, callerPc, callLog,
                   lastResult, lastDone>>

\* ------------------------------------------- FileProducer and the dispatcher
Files == {"f"}

Handles == 1..MaxHandles

\* the handles of file f that are alive: made, and neither dropped nor
\* consumed by end
Live(f) == {h \in Handles : handles[h].state = "live" /\ handles[h].file = f}

\* a handle that has not been made yet
Fresh == {h \in Handles : handles[h].state = "none"}

ProducerInit ==
    /\ handles = [h \in Handles |-> [state |-> "none", file |-> "f"]]
    /\ stamp = [h \in Handles |-> <<>>]
    /\ sent = [h \in Handles |-> 0]
    /\ clock = 0
    /\ chan = <<>>
    /\ count = [f \in Files |-> 0]
    /\ log = [f \in Files |-> <<>>]
    /\ entered = <<>>
    /\ chanOpen = TRUE
    /\ futs = <<>>
    /\ endFut = [h \in Handles |-> "none"]

\* mutant of ChanSend: the request is queued twice
ChanSendTwice(q, r) == q \o <<r, r>>

\* mutant of ChanSend: the request jumps the queue
ChanSendFront(q, r) == <<r>> \o q

\* self.sender.send(RequestTo { .. }) on the unbounded request channel
ChanSend(q, r) == Append(q, r)

RequestTo(f, data) == [file_id |-> f, data |-> data]

\* mutant of TrySend: the request is queued although no receiver is left
TrySendAnyway(q, r) == ChanSend(q, r)

\* Sender::send: the request is queued while the receiver lives, and handed
\* back in the error otherwise
TrySend(q, r) == IF chanOpen THEN ChanSend(q, r) ELSE q

\* the one-shot reply channel a call of send_to, flush or end makes: "open"
\* (nothing in it yet, its sender in the queued request), or "unsent" when the
\* request could not be queued and the call returns ProducerEnded at once;
\* later "Ok" or "Err" (the answer) or "closed" (the sender dropped without
\* an answer)
NewReply == IF chanOpen THEN "open" ELSE "unsent"

Call(op, h, label) == [op |-> op, handle |-> h, label |-> label, reply |-> NewReply]

\* new_producer(file_id): the entry of file_id is made if there is none, its
\* handle count goes up by one, and a handle bound to the shared sender is
\* returned
NewProducer(f) ==
    /\ Fresh # {}
    /\ UNCHANGED notProd
    /\ LET h == CHOOSE x \in Fresh : \A y \in Fresh : x <= y IN
         handles' = [handles EXCEPT ![h] = [state |-> "live", file |-> f]]
    /\ count' = [count EXCEPT ![f] = @ + 1]
    /\ UNCHANGED <<stamp, sent, clock, chan, log, entered, chanOpen, futs, endFut>>

\* #[derive(Clone)] on FileProducer: the fields are copied, nothing is sent
Clone(h) ==
    /\ handles[h].state = "live"
    /\ UNCHANGED notProd
    /\ Fresh # {}
    /\ LET c == CHOOSE x \in Fresh : \A y \in Fresh : x <= y IN
         handles' = [handles EXCEPT ![c] = [state |-> "live", file |-> handles[h].file]]
    /\ UNCHANGED <<stamp, sent, clock, chan, count, log, entered, chanOpen, futs, endFut>>

\* the send_to calls made so far, on all handles
SendsMade == Len(entered) + Cardinality({h \in Handles : stamp[h] # <<>>})

\* Timestamp::now_utc(): a reading of the clock, later than the last one
NowUtc == clock + 1

\* send_to, first half: the SendRequest is built, Timestamp::now_utc() read
SendStamp(h) ==
    /\ handles[h].state = "live"
    /\ UNCHANGED notProd
    /\ stamp[h] = <<>>
    /\ SendsMade < MaxSends
    /\ stamp' = [stamp EXCEPT ![h] = <<NowUtc>>]
    /\ clock' = NowUtc
    /\ sent' = [sent EXCEPT ![h] = @ + 1]
    /\ UNCHANGED <<handles, chan, count, log, entered, chanOpen, futs, endFut>>

\* the SendRequest of the send_to under way on h (label: its number among
\* the calls on h, standing for the payload)
SendRequest(h) ==
    [type |-> "Send", handle |-> h, label |-> sent[h], timestamp |-> stamp[h][1],
     receipt |-> Len(futs) + 1]

\* send_to, second half: the request enters the channel
SendEnqueue(h) ==
    /\ stamp[h] # <<>>
    /\ Len(chan) < MaxChan
    /\ UNCHANGED notProd
    /\ chan' = TrySend(chan, RequestTo(handles[h].file, SendRequest(h)))
    /\ futs' = Append(futs, Call("Send", h, sent[h]))
    /\ entered' = IF chanOpen THEN Append(entered, <<h, sent[h]>>) ELSE entered
    /\ stamp' = [stamp EXCEPT ![h] = <<>>]
    /\ UNCHANGED <<handles, sent, clock, count, log, chanOpen, endFut>>

\* end(self), up to its await: Request::End enters the channel
EndCall(h) ==
    /\ handles[h].state = "live"
    /\ Len(chan) < MaxChan
    /\ UNCHANGED notProd
    /\ stamp[h] = <<>>
    /\ handles' = [handles EXCEPT ![h].state = "ending"]
    /\ chan' = TrySend(chan, RequestTo(handles[h].file,
                                       [type |-> "End", handle |-> h]))
    /\ endFut' = [endFut EXCEPT ![h] = NewReply]
    /\ UNCHANGED <<stamp, sent, clock, count, log, entered, chanOpen, futs>>

\* mutant of DropSendOk: the drop expects its send to succeed
DropSendExpect(sent_ok) == IF sent_ok THEN "dropped" ELSE "panicked"

\* self.sender.send(..).ok() in drop: whether or not the request could be
\* sent, the drop is over
DropSendOk(sent_ok) == "dropped"

\* impl Drop for FileProducer: Request::Drop enters the channel, when the
\* handle is dropped or when end, which took it by value, is over
DropHandle(h) ==
    /\ handles[h].state \in {"live", "ending"}
    /\ Len(chan) < MaxChan
    /\ UNCHANGED notProd
    /\ stamp[h] = <<>>
    /\ handles' = [handles EXCEPT ![h].state = DropSendOk(chanOpen)]
    /\ chan' = TrySend(chan, RequestTo(handles[h].file, [type |-> "Drop"]))
    /\ UNCHANGED <<stamp, sent, clock, count, log, entered, chanOpen, futs, endFut>>

\* the record the writer of a file appends for a SendRequest: the fields the
\* request carries
Record(req) == [handle |-> req.handle, label |-> req.label, timestamp |-> req.timestamp]

\* the reply channel of call i gets the answer v, or is dropped ("closed")
Reply(i, v) == [futs EXCEPT ![i].reply = v]

\* the dispatcher takes the next RequestTo: Send appends a record to the file
\* of a live writer, Flush is acknowledged, End retires the writer, Drop takes
\* one off the handle count and retires the writer at zero; a Send, Flush or
\* End for a file without a writer is dropped with its reply channel
Dispatch ==
    /\ chanOpen
    /\ chan # <<>>
    /\ UNCHANGED notProd
    /\ chan' = Tail(chan)
    /\ LET f == Head(chan).file_id
           data == Head(chan).data
       IN CASE data.type = "Send" ->
                 /\ log' = IF count[f] > 0
                           THEN [log EXCEPT ![f] = Append(@, Record(data))]
                           ELSE log
                 /\ futs' = Reply(data.receipt, IF count[f] > 0 THEN "Ok" ELSE "closed")
                 /\ UNCHANGED <<count, endFut>>
            [] data.type = "Flush" ->
                 /\ futs' = Reply(data.receipt, IF count[f] > 0 THEN "Ok" ELSE "closed")
                 /\ UNCHANGED <<count, log, endFut>>
            [] data.type = "End" ->
                 /\ count' = [count EXCEPT ![f] = 0]
                 /\ endFut' = [endFut EXCEPT ![data.handle] =
                                   IF count[f] > 0 THEN "Ok" ELSE "closed"]
                 /\ UNCHANGED <<log, futs>>
            [] data.type = "Drop" ->
                 /\ count' = [count EXCEPT ![f] = IF @ > 0 THEN @ - 1 ELSE 0]
                 /\ UNCHANGED <<log, futs, endFut>>
    /\ UNCHANGED <<handles, stamp, sent, clock, entered, chanOpen>>

\* the writer gets a FileErr from its sink while it serves a Send, Flush or
\* End: the request is answered with the error and the writer is over
DispatchFail ==
    /\ chanOpen
    /\ chan # <<>>
    /\ Head(chan).data.type \in {"Send", "Flush", "End"}
    /\ count[Head(chan).file_id] > 0
    /\ UNCHANGED notProd
    /\ chan' = Tail(chan)
    /\ IF Head(chan).data.type = "End"
       THEN /\ endFut' = [endFut EXCEPT ![Head(chan).data.handle] = "Err"]
            /\ UNCHANGED futs
       ELSE /\ futs' = Reply(Head(chan).data.receipt, "Err")
            /\ UNCHANGED endFut
    /\ count' = [count EXCEPT ![Head(chan).file_id] = 0]
    /\ UNCHANGED <<handles, stamp, sent, clock, log, entered, chanOpen>>

\* flush(&mut self), up to its await: Request::Flush enters the channel
FlushCall(h) ==
    /\ handles[h].state = "live"
    /\ Len(chan) < MaxChan
    /\ UNCHANGED notProd
    /\ stamp[h] = <<>>
    /\ chan' = TrySend(chan, RequestTo(handles[h].file,
                                       [type |-> "Flush", receipt |-> Len(futs) + 1]))
    /\ futs' = Append(futs, Call("Flush", h, 0))
    /\ UNCHANGED <<handles, stamp, sent, clock, count, log, entered, chanOpen, endFut>>

\* mutant of Resolve: a reply channel dropped without an answer leaves the
\* future pending
ResolveHang(reply) ==
    CASE reply = "Ok" -> "Ok"
      [] reply = "Err" -> "Err"
      [] reply = "closed" -> "pending"

\* what a poll of the future finds once the reply channel has moved:
\* Ok(Ok(..)), Ok(Err(e)), or Err(_) when the sender was dropped
Resolve(reply) ==
    CASE reply = "Ok" -> "Ok"
      [] reply = "Err" -> "Err"
      [] reply = "closed" -> "ProducerEnded"

\* SendFuture::poll, and the await of flush and end: how a call with this
\* reply channel stands for its caller
Poll(reply) ==
    CASE reply = "none" -> "none"
      [] reply = "unsent" -> "ProducerEnded"
      [] reply = "open" -> "pending"
      [] OTHER -> Resolve(reply)

\* the receiver of the shared request channel is dropped
CloseChan ==
    /\ chanOpen
    /\ UNCHANGED notProd
    /\ chanOpen' = FALSE
    /\ UNCHANGED <<handles, stamp, sent, clock, chan, count, log, entered, futs, endFut>>

\* the sink at rest, while the producers are looked at
SinkIdle ==
    /\ limit = 0 /\ file = <<>> /\ quota = 0
    /\ pending = <<>> /\ pendingAlive = TRUE
    /\ updQ = <<>> /\ offer = <<>>
    /\ events = <<>> /\ nEvents = 0
    /\ watcherAlive = TRUE /\ sinkAlive = TRUE
    /\ taskPc = "recv" /\ termErr = None
    /\ callerPc = "idle" /\ callLog = <<>> /\ lastResult = None
    /\ lastDone = 0 /\ removedAt = -1

\* ------------------------------------- StdioProducer and the stdout thread
Streams == {"a", "b"}

Threads == 1..MaxThreads

\* the receiver of a stdout thread lives until the thread's closure is over
ReceiverAlive(g) == tpc[g] \in {"spawned", "recv", "exit", "taken"}

StdioInit ==
    /\ THREAD = 0
    /\ sequences = <<>>
    /\ holder = 0
    /\ tpc = [g \in Threads |-> "none"]
    /\ signals = [g \in Threads |-> <<>>]
    /\ printed = <<>>
    /\ sprod = [p \in Handles |-> [state |-> "none", request |-> 0]]
    /\ sfut = <<>>
    /\ spanic = None

\* mutant of append: a stream seen for the first time is stored as 0
appendFromZero(seqs, stream) ==
    IF stream \in DOMAIN seqs
    THEN [seq |-> seqs[stream], sequences |-> [seqs EXCEPT ![stream] = @ + 1]]
    ELSE [seq |-> 0,
          sequences |-> [k \in DOMAIN seqs \cup {stream} |->
                            IF k = stream THEN 0 ELSE seqs[k]]]

\* Producers::append: the SequenceNo of the message, and the map afterwards
append(seqs, stream) ==
    IF stream \in DOMAIN seqs
    THEN [seq |-> seqs[stream], sequences |-> [seqs EXCEPT ![stream] = @ + 1]]
    ELSE [seq |-> 0,
          sequences |-> [k \in DOMAIN seqs \cup {stream} |->
                            IF k = stream THEN 1 ELSE seqs[k]]]

\* init(), under the THREAD lock: a stdout thread is spawned and its sender
\* stored when THREAD is None
init ==
    IF THREAD = 0 /\ \E g \in Threads : tpc[g] = "none"
    THEN LET g == CHOOSE x \in Threads : tpc[x] = "none" /\ \A y \in Threads : tpc[y] = "none" => x <= y
         IN /\ tpc' = [tpc EXCEPT ![g] = "spawned"]
            /\ THREAD' = g
    ELSE UNCHANGED <<tpc, THREAD>>

\* StdioProducer::new, first half: init()
StdioNewInit(p) ==
    /\ sprod[p].state = "none"
    /\ UNCHANGED notStdio
    /\ THREAD # 0 \/ \E g \in Threads : tpc[g] = "none"
    /\ init
    /\ sprod' = [sprod EXCEPT ![p].state = "inited"]
    /\ UNCHANGED <<sequences, holder, signals, printed, sfut, spanic>>

\* StdioProducer::new, second half: the sender stored in THREAD is cloned
StdioNew(p) ==
    /\ sprod[p].state = "inited"
    /\ UNCHANGED notStdio
    /\ IF THREAD # 0
       THEN /\ sprod' = [sprod EXCEPT ![p] = [state |-> "live", request |-> THREAD]]
            /\ UNCHANGED spanic
       ELSE /\ sprod' = [sprod EXCEPT ![p].state = "panicked"]
            /\ spanic' = "new"
    /\ UNCHANGED <<THREAD, sequences, holder, tpc, signals, printed, sfut>>

\* the SendRequest signal of the send_to call whose future is sfut[i]
StdioSendRequest(i, stream) == [type |-> "SendRequest", stream |-> stream, fut |-> i]

\* StdioProducer::send_to: the signal enters the channel of the stdout thread,
\* or the call fails with Disconnected when that thread's receiver is gone
StdioSendTo(p, stream) ==
    /\ sprod[p].state = "live"
    /\ UNCHANGED notStdio
    /\ Len(sfut) < MaxSends
    /\ LET g == sprod[p].request
           i == Len(sfut) + 1
       IN IF ReceiverAlive(g)
          THEN /\ Len(signals[g]) < MaxChan
               /\ signals' = [signals EXCEPT ![g] = Append(@, StdioSendRequest(i, stream))]
               /\ sfut' = Append(sfut, [stream |-> stream, state |-> "pending",
                                        receipt |-> "none"])
          ELSE /\ sfut' = Append(sfut, [stream |-> stream, state |-> "Disconnected",
                                        receipt |-> "none"])
               /\ UNCHANGED signals
    /\ UNCHANGED <<THREAD, sequences, holder, tpc, printed, sprod, spanic>>

\* a SendFuture is dropped before it has resolved
StdioDropFuture(i) ==
    /\ i <= Len(sfut)
    /\ sfut[i].state = "pending"
    /\ sfut[i].receipt = "none"
    /\ UNCHANGED notStdio
    /\ sfut' = [sfut EXCEPT ![i].state = "dropped"]
    /\ UNCHANGED <<THREAD, sequences, holder, tpc, signals, printed, sprod, spanic>>

\* shutdown(): Signal::Shutdown is sent on the sender THREAD holds; the send
\* is expected to succeed
Shutdown ==
    /\ THREAD # 0
    /\ spanic = None
    /\ UNCHANGED notStdio
    /\ IF ReceiverAlive(THREAD)
       THEN /\ Len(signals[THREAD]) < MaxChan
            /\ signals' = [signals EXCEPT ![THREAD] = Append(@, [type |-> "Shutdown"])]
            /\ UNCHANGED spanic
       ELSE /\ spanic' = "shutdown"
            /\ UNCHANGED signals
    /\ UNCHANGED <<THREAD, sequences, holder, tpc, printed, sprod, sfut>>

\* the spawned thread starts: PRODUCERS.try_lock().expect(..)
ThreadStart(g) ==
    /\ tpc[g] = "spawned"
    /\ UNCHANGED notStdio
    /\ IF holder = 0
       THEN /\ holder' = g
            /\ tpc' = [tpc EXCEPT ![g] = "recv"]
       ELSE /\ tpc' = [tpc EXCEPT ![g] = "panicked"]
            /\ UNCHANGED holder
    /\ UNCHANGED <<THREAD, sequences, signals, printed, sprod, sfut, spanic>>

\* mutant of AfterReceipt: the thread expects the receipt to be delivered
AfterReceiptExpect(delivered) == IF delivered THEN "recv" ELSE "panicked"

\* receipt.send(meta).ok(): whether or not the receipt could be delivered,
\* the thread goes back to receiver.recv()
AfterReceipt(delivered) == "recv"

\* the stdout thread takes a SendRequest: the line is printed with the
\* SequenceNo of Producers::append, then the receipt is sent
ThreadPrint(g) ==
    /\ tpc[g] = "recv"
    /\ signals[g] # <<>>
    /\ Head(signals[g]).type = "SendRequest"
    /\ UNCHANGED notStdio
    /\ LET m == Head(signals[g])
           a == append(sequences, m.stream)
           delivered == sfut[m.fut].state = "pending"
       IN /\ printed' = Append(printed, [stream |-> m.stream, seq |-> a.seq,
                                         fut |-> m.fut, thread |-> g])
          /\ sequences' = a.sequences
          /\ sfut' = [sfut EXCEPT ![m.fut].receipt =
                         IF delivered THEN "sent" ELSE "undelivered"]
          /\ tpc' = [tpc EXCEPT ![g] = AfterReceipt(delivered)]
          /\ holder' = IF AfterReceipt(delivered) = "panicked" THEN 0 ELSE holder
    /\ signals' = [signals EXCEPT ![g] = Tail(@)]
    /\ UNCHANGED <<THREAD, sprod, spanic>>

\* the stdout thread takes Signal::Shutdown and leaves its loop
ThreadShutdown(g) ==
    /\ tpc[g] = "recv"
    /\ signals[g] # <<>>
    /\ Head(signals[g]).type = "Shutdown"
    /\ UNCHANGED notStdio
    /\ tpc' = [tpc EXCEPT ![g] = "exit"]
    /\ signals' = [signals EXCEPT ![g] = Tail(@)]
    /\ UNCHANGED <<THREAD, sequences, holder, printed, sprod, sfut, spanic>>

\* after the loop: THREAD.lock(), thread.take()
ThreadTake(g) ==
    /\ tpc[g] = "exit"
    /\ UNCHANGED notStdio
    /\ THREAD' = 0
    /\ tpc' = [tpc EXCEPT ![g] = "taken"]
    /\ UNCHANGED <<sequences, holder, signals, printed, sprod, sfut, spanic>>

\* the closure is over: the PRODUCERS guard and the receiver are dropped,
\* and with the receiver the signals still queued
ThreadEnd(g) ==
    /\ tpc[g] = "taken"
    /\ UNCHANGED notStdio
    /\ holder' = 0
    /\ tpc' = [tpc EXCEPT ![g] = "done"]
    /\ signals' = [signals EXCEPT ![g] = <<>>]
    /\ UNCHANGED <<THREAD, sequences, printed, sprod, sfut, spanic>>

(***************************************************************************)
(* FileErr and FileErr::take (error.rs).  A FileErr is a variant with the  *)
(* payload it carries: <<>> for a variant without one.                     *)
(***************************************************************************)
WithPayload == {"Utf8Error", "IoError", "WatchError", "HeaderErr", "FormatErr",
                "TaskDead", "RecvError"}

NoPayload == {"DuplicateIoError", "FileRemoved", "FileLimitExceeded",
              "NotEnoughBytes"}

FileErr ==
    [variant : WithPayload, content : {<<c>> : c \in 0..MaxContent}]
        \cup [variant : NoPayload, content : {<<>>}]

DuplicateIoError == [variant |-> "DuplicateIoError", content |-> <<>>]

\* the FileErr no take is made on
ErrIdle == slot = DuplicateIoError /\ takes = <<>>

ErrInit == slot \in FileErr /\ takes = <<>>

\* mutant of take: the placeholder is left behind whatever was stored
takePlaceholder(self) == [returned |-> self, left |-> DuplicateIoError]

\* FileErr::take: `copy` is built from self, swapped with it and returned, so
\* the value returned is the stored one and the one left is the copy
take(self) ==
    LET copy == IF self.variant = "IoError" THEN DuplicateIoError ELSE self
    IN [returned |-> self, left |-> copy]

TakeErr ==
    /\ Len(takes) < MaxTakes
    /\ UNCHANGED notErr
    /\ slot' = take(slot).left
    /\ takes' = Append(takes, take(slot).returned)

ErrNext == TakeErr

(***************************************************************************)
(* KafkaProducer: the `inner` producer, the calls that reach it through    *)
(* get(), and the transactional calls, which move it into a blocking task  *)
(* and put it back when the task is joined (kafka producer.rs).            *)
(***************************************************************************)
Transactional == {"init_transactions", "begin_transaction", "commit_transaction",
                  "abort_transaction", "send_offsets_to_transaction"}

\* the calls that only borrow the inner producer
Borrowing == {"send_to", "in_flight_count", "flush_sync"}

\* what the blocking task of a transactional call can end with: the result of
\* func, or the error of a task that could not be joined
Joined == {"Ok", "Err", "JoinErr"}

KafkaInit ==
    /\ inner = "Some"
    /\ running = "none"
    /\ lastKafka = [op |-> "none", result |-> "none"]

\* get(): expect on self.inner
get == IF inner = "Some" THEN "Ok" ELSE "Panic"

\* send_to, in_flight_count, flush_sync: get() and a call on the producer,
\* which succeeds or fails with a KafkaErr
KafkaBorrow(op) ==
    /\ running = "none"
    /\ lastKafka.result # "Panic"
    /\ UNCHANGED notKafka
    /\ \E r \in {"Ok", "Err"} :
          lastKafka' = [op |-> op, result |-> IF get = "Ok" THEN r ELSE "Panic"]
    /\ UNCHANGED <<inner, running>>

\* transaction(func) up to its await: get(), then self.inner.take()
TransactionStart(op) ==
    /\ running = "none"
    /\ lastKafka.result # "Panic"
    /\ UNCHANGED notKafka
    /\ IF get = "Ok"
       THEN /\ inner' = "None"
            /\ running' = op
            /\ UNCHANGED lastKafka
       ELSE /\ lastKafka' = [op |-> op, result |-> "Panic"]
            /\ UNCHANGED <<inner, running>>

\* the await of spawn_blocking is over: Ok(Ok(inner)) and Ok(Err((inner, e)))
\* put the producer back, an Err of the join leaves through `?`
TransactionJoin(j) ==
    /\ running # "none"
    /\ UNCHANGED notKafka
    /\ inner' = IF j \in {"Ok", "Err"} THEN "Some" ELSE inner
    /\ running' = "none"
    /\ lastKafka' = [op |-> running, result |-> j]

KafkaNext ==
    \/ \E op \in Borrowing : KafkaBorrow(op)
    \/ \E op \in Transactional : TransactionStart(op)
    \/ \E j \in Joined : TransactionJoin(j)

(***************************************************************************)
(* Anchoring: the `stream` field of FileProducer, StdioProducer and        *)
(* KafkaProducer, and the anchor / anchored methods of their Producer      *)
(* impls, which are the same code in the three crates.                     *)
(***************************************************************************)
ProducerKinds == {"file", "stdio", "kafka"}

\* new: `stream: None`
AnchorInit ==
    /\ self_stream = [p \in ProducerKinds |-> None]
    /\ anchoredTo = [p \in ProducerKinds |-> None]
    /\ lastAnchor = [p \in ProducerKinds |->
                        [op |-> "none", key |-> None, result |-> <<>>]]

\* mutant of anchor: an anchored producer takes the new key before it fails
anchorOverwrite(cur, k) ==
    IF cur = None
    THEN [stream |-> k, result |-> "Ok"]
    ELSE [stream |-> k, result |-> "AlreadyAnchored"]

\* anchor(&mut self, stream): the field afterwards and the result; the same
\* code in impl Producer for FileProducer, StdioProducer and KafkaProducer
anchor(cur, k) ==
    IF cur = None
    THEN [stream |-> k, result |-> "Ok"]
    ELSE [stream |-> cur, result |-> "AlreadyAnchored"]

\* anchored(&self): Ok(&stream) or NotAnchored
anchored(cur) == IF cur # None THEN <<"Ok", cur>> ELSE <<"NotAnchored">>

AnchorCall(p, k) ==
    /\ UNCHANGED notAnchor
    /\ self_stream' = [self_stream EXCEPT ![p] = anchor(self_stream[p], k).stream]
    /\ lastAnchor' = [lastAnchor EXCEPT ![p] =
                         [op |-> "anchor", key |-> k,
                          result |-> <<anchor(self_stream[p], k).result>>]]
    /\ anchoredTo' = [anchoredTo EXCEPT ![p] =
                         IF @ = None /\ anchor(self_stream[p], k).result = "Ok"
                         THEN k ELSE @]

AnchoredCall(p) ==
    /\ UNCHANGED notAnchor
    /\ lastAnchor' = [lastAnchor EXCEPT ![p] =
                         [op |-> "anchored", key |-> None,
                          result |-> anchored(self_stream[p])]]
    /\ UNCHANGED <<self_stream, anchoredTo>>

AnchorNext ==
    \/ \E p \in ProducerKinds : \E k \in Streams : AnchorCall(p, k)
    \/ \E p \in ProducerKinds : AnchoredCall(p)

AnchorSpecInit == SinkIdle /\ ProducerInit /\ StdioInit /\ AnchorInit /\ ErrIdle /\ KafkaInit

AnchorSpec == AnchorSpecInit /\ [][AnchorNext]_vars

\* the producers and one stdout thread at work
StdioNext ==
    \/ \E p \in Handles : StdioNewInit(p)
    \/ \E p \in Handles : StdioNew(p)
    \/ \E p \in Handles : \E k \in Streams : StdioSendTo(p, k)
    \/ \E i \in 1..MaxSends : StdioDropFuture(i)
    \/ \E g \in Threads : ThreadStart(g)
    \/ \E g \in Threads : ThreadPrint(g)

\* the stdout threads coming and going
StdioThreadNext ==
    \/ \E p \in Handles : StdioNewInit(p)
    \/ \E p \in Handles : StdioNew(p)
    \/ Shutdown
    \/ \E g \in Threads : ThreadStart(g)
    \/ \E g \in Threads : ThreadShutdown(g)
    \/ \E g \in Threads : ThreadTake(g)
    \/ \E g \in Threads : ThreadEnd(g)

StdioSpecInit == SinkIdle /\ ProducerInit /\ StdioInit /\ AnchorInit /\ ErrIdle /\ KafkaInit

StdioSpec == StdioSpecInit /\ [][StdioNext]_vars

StdioThreadSpec == StdioSpecInit /\ [][StdioThreadNext]_vars

ProducerNext ==
    \/ \E f \in Files : NewProducer(f)
    \/ \E h \in Handles : Clone(h)
    \/ \E h \in Handles : SendStamp(h)
    \/ \E h \in Handles : SendEnqueue(h)
    \/ \E h \in Handles : EndCall(h)
    \/ \E h \in Handles : DropHandle(h)
    \/ Dispatch

ProducerSpecInit == ProducerInit /\ SinkIdle /\ StdioInit /\ AnchorInit /\ ErrIdle /\ KafkaInit

ProducerSpec == ProducerSpecInit /\ [][ProducerNext]_vars

\* the calls of send_to, flush, end and drop made so far
ReqsMade ==
    Len(futs) + Cardinality({h \in Handles : stamp[h] # <<>>})
              + Cardinality({h \in Handles : endFut[h] # "none"})
              + Cardinality({h \in Handles : handles[h].state = "dropped"})

\* send_to as one step: the clock is read and the request enters the channel
SendTo(h) ==
    /\ handles[h].state = "live"
    /\ stamp[h] = <<>>
    /\ Len(chan) < MaxChan
    /\ UNCHANGED notProd
    /\ clock' = NowUtc
    /\ sent' = [sent EXCEPT ![h] = @ + 1]
    /\ chan' = TrySend(chan, RequestTo(handles[h].file,
                   [type |-> "Send", handle |-> h, label |-> sent[h] + 1,
                    timestamp |-> NowUtc, receipt |-> Len(futs) + 1]))
    /\ futs' = Append(futs, Call("Send", h, sent[h] + 1))
    /\ entered' = IF chanOpen THEN Append(entered, <<h, sent[h] + 1>>) ELSE entered
    /\ UNCHANGED <<handles, stamp, count, log, chanOpen, endFut>>

FSend(h) == ReqsMade < MaxReqs /\ SendTo(h)

FFlush(h) == ReqsMade < MaxReqs /\ FlushCall(h)

FEnd(h) == ReqsMade < MaxReqs /\ EndCall(h)

FDrop(h) == ReqsMade < MaxReqs /\ DropHandle(h)

\* the handles, the dispatcher and the futures of the calls
FutureNext ==
    \/ \E f \in Files : NewProducer(f)
    \/ \E h \in Handles : FSend(h)
    \/ \E h \in Handles : FFlush(h)
    \/ \E h \in Handles : FEnd(h)
    \/ \E h \in Handles : FDrop(h)
    \/ Dispatch
    \/ DispatchFail
    \/ CloseChan

\* the dispatcher goes on taking requests while its receiver lives
FutureFair == WF_vars(Dispatch \/ DispatchFail)

FutureSpec == ProducerSpecInit /\ [][FutureNext]_vars /\ FutureFair

(***************************************************************************)
(* FileSink::new over a file of any size, also one larger than the quota.  *)
(* `quota -= file.size()` is a subtraction of u64: when the size exceeds   *)
(* the quota it panics in a build with overflow checks and wraps around in *)
(* a build without them.                                                   *)
(***************************************************************************)
\* a - b on unsigned integers of QuotaWidth bits, overflow checks off
WrappingSub(a, b) == (a - b + 2^QuotaWidth) % 2^QuotaWidth

SinkNewInit ==
    /\ limit \in 0..MaxQuota
    /\ \E s0 \in 0..MaxSize :
          /\ file = Payload(0, s0)
          /\ \/ \* the subtraction went through: the task is spawned
                /\ quota = WrappingSub(limit, s0)
                /\ pendingAlive = TRUE /\ watcherAlive = TRUE /\ sinkAlive = TRUE
                /\ taskPc = "recv" /\ callerPc = "idle" /\ lastResult = None
             \/ \* overflow checks on: new panics before the task is spawned
                /\ s0 > limit
                /\ quota = limit
                /\ pendingAlive = FALSE /\ watcherAlive = FALSE /\ sinkAlive = FALSE
                /\ taskPc = "done" /\ callerPc = "panicked"
                /\ lastResult = "PanicOverflow"
    /\ pending = <<>>
    /\ updQ = <<>>
    /\ offer = <<>>
    /\ events = <<>>
    /\ nEvents = 0
    /\ termErr = None
    /\ callLog = <<>>
    /\ lastDone = 0
    /\ removedAt = -1

\* writes on the new sink, and the task serving them
SinkNewNext ==
    \/ \E n \in 0..MaxLen : Write(n)
    \/ TaskRecv
    \/ TaskSendErr
    \/ TaskDrain

SinkNewSpecInit == SinkNewInit /\ ProducerInit /\ StdioInit /\ AnchorInit /\ ErrIdle /\ KafkaInit

SinkNewSpec == SinkNewSpecInit /\ [][SinkNewNext]_vars

ErrSpecInit == SinkIdle /\ ProducerInit /\ StdioInit /\ AnchorInit /\ ErrInit /\ KafkaInit

ErrSpec == ErrSpecInit /\ [][ErrNext]_vars

KafkaSpecInit == SinkIdle /\ ProducerInit /\ StdioInit /\ AnchorInit /\ ErrIdle /\ KafkaInit

KafkaSpec == KafkaSpecInit /\ [][KafkaNext]_vars

Init == SinkInit /\ ProducerInit /\ StdioInit /\ AnchorInit /\ ErrIdle /\ KafkaInit

Next ==
    \/ \E n \in 0..MaxLen : Write(n)
    \/ \E m \in Markers : Flush(m)
    \/ SyncAll
    \/ FlushResolve
    \/ SyncAllResolve
    \/ Abandon
    \/ DropSink
    \/ TaskRecv
    \/ TaskRecvClosed
    \/ TaskSendErr
    \/ TaskDrain
    \/ \E e \in FileEvent : WatcherEmit(e)

Spec == Init /\ [][Next]_vars

\* the spawned task is polled whenever it can take a step
TaskFair == WF_vars(TaskRecv \/ TaskRecvClosed \/ TaskSendErr \/ TaskDrain)

\* a sink with the largest quota over an empty file
EmptyFileInit == Init /\ limit = MaxQuota /\ file = <<>>

EmptyFileSpec == EmptyFileInit /\ [][Next]_vars

\* the sink is written to, flushed, left alone in the middle of a flush, and
\* dropped
DropNext ==
    \/ \E n \in 0..MaxLen : Write(n)
    \/ \E m \in Markers : Flush(m)
    \/ Abandon
    \/ DropSink
    \/ TaskRecv
    \/ TaskRecvClosed
    \/ TaskSendErr
    \/ TaskDrain

DropSpec == EmptyFileInit /\ [][DropNext]_vars /\ TaskFair

\* =================================================================== claims
\* the size the file had when the sink was made
InitSize == Cardinality({p \in 1..Len(file) : file[p][1] = 0})

\* the bytes of call id that have reached the file
Landed(id) == Cardinality({p \in 1..Len(file) : file[p][1] = id})

\* the latest call, and whether it has returned
LastCall == callLog[Len(callLog)]
Returned(op) ==
    /\ callLog # <<>> /\ LastCall.op = op
    /\ callerPc \in {"idle", "dropped"}
    /\ lastResult \notin {"Pending", "Abandoned"}

\* every write among the first n calls is in the file, whole and in order
WritesLanded(n) ==
    \A i \in 1..n :
        callLog[i].op = "write" =>
            \E p \in 0..Len(file) :
                /\ p + callLog[i].arg <= Len(file)
                /\ \A j \in 1..callLog[i].arg : file[p + j] = <<i, j>>

\* C1: the size of the file never exceeds the quota the sink was made with,
\* whatever is written, flushed or synced and whatever the watcher reports.
C1_QuotaHonored == Len(file) <= limit

\* a write was cut by the quota and the file is exactly full
C1_Witness ==
    /\ termErr = "FileLimitExceeded"
    /\ Len(file) = limit
    /\ \E i \in 1..Len(callLog) :
          callLog[i].op = "write" /\ 0 < Landed(i) /\ Landed(i) < callLog[i].arg

\* the task, waiting for a request, takes one in this step
TaskTakes == taskPc = "recv" /\ pending # <<>> /\ taskPc' # "recv"

FileErrs == {"IoError", "DuplicateIoError", "WatchError", "FileRemoved",
             "FileLimitExceeded", "TaskDead"}

\* C3: once the task has hit its terminal error and a call has returned it,
\* every later call of write, flush or sync_all returns an Err too: it does
\* not return Ok and does not panic.
C3_ErrLatched ==
    [][(/\ termErr # None /\ lastResult = termErr /\ callerPc = "idle"
        /\ Len(callLog') > Len(callLog))
          => lastResult' \in FileErrs]_vars

\* C4: after Remove was emitted for a file whose writes were all served, the
\* next call, a flush, resolves with FileRemoved (an I/O failure of that flush
\* aside).
C4_NextFlushFileRemoved ==
    (/\ removedAt >= 0
     /\ Len(callLog) = removedAt + 1
     /\ Returned("flush")
     /\ lastResult # "IoError")
        => lastResult = "FileRemoved"

\* C5: the assertion receipt == marker of FileSink::flush never fails.
C5_ReceiptIsOwn == lastResult # "PanicAssert"

\* C6: when a flush has resolved Ok, the bytes of every write made on the
\* sink before it are in the file, whole.
C6_FlushAfterWrites ==
    (Returned("flush") /\ lastResult = "Ok") => WritesLanded(Len(callLog))

\* a flush resolved Ok after a write of at least one byte
C6_Witness ==
    /\ Returned("flush") /\ lastResult = "Ok"
    /\ \E i \in 1..Len(callLog) : callLog[i].op = "write" /\ callLog[i].arg > 0

\* C7: when a sync_all has resolved Ok, the task has served the SyncAll request
\* of that very call, and so every write made before it is in the file.
C7_SyncAllIsOwn ==
    (Returned("sync_all") /\ lastResult = "Ok")
        => lastDone >= Len(callLog) /\ WritesLanded(Len(callLog))

\* a is b with some of its elements left out
RECURSIVE IsSubseq(_, _)
IsSubseq(a, b) ==
    IF a = <<>> THEN TRUE
    ELSE IF b = <<>> THEN FALSE
    ELSE IF Head(a) = Head(b) THEN IsSubseq(Tail(a), Tail(b))
    ELSE IsSubseq(a, Tail(b))

\* the sends whose records file f holds, in the order of the file
Sends(f) == [i \in 1..Len(log[f]) |-> <<log[f][i].handle, log[f][i].label>>]

\* C8: the records of a file are in the order in which their requests entered
\* the shared request channel, and so the records of one handle are in the
\* order of its send_to calls.
C8_AppendOrder ==
    \A f \in Files :
        /\ IsSubseq(Sends(f), entered)
        /\ \A i, j \in 1..Len(log[f]) :
              (i < j /\ log[f][i].handle = log[f][j].handle)
                  => log[f][i].label < log[f][j].label

\* a file holds a record of one handle between two records of another
C8_Witness ==
    \E f \in Files : \E i, j, k \in 1..Len(log[f]) :
        /\ i < j /\ j < k
        /\ log[f][i].handle = log[f][k].handle
        /\ log[f][i].handle # log[f][j].handle

C10_DropRetiresLast ==
    [][\A f \in Files :
          (/\ chan # <<>>
           /\ Head(chan).file_id = f /\ Head(chan).data.type = "Drop"
           /\ chan' = Tail(chan)
           /\ count[f] > 0 /\ count'[f] = 0)
              => Live(f) = {}]_vars

\* the lines printed for a stream, in the order of stdout
LinesOf(stream) == SelectSeq(printed, LAMBDA l : l.stream = stream)

\* C12: the sequence numbers given to the messages of one stream are 0, 1,
\* 2, ... in the order they are given, whatever is printed for other streams
\* in between and whichever producer sent them.
C12_SeqGapless ==
    \A stream \in Streams : \A i \in 1..Len(LinesOf(stream)) :
        LinesOf(stream)[i].seq = i - 1

\* two producers are in use, and a message of another stream was printed
\* between the first two messages of a stream
C12_Witness ==
    /\ \A p \in Handles : sprod[p].state = "live"
    /\ \E i, j, k \in 1..Len(printed) :
          /\ i < j /\ j < k
          /\ printed[i].stream = printed[k].stream
          /\ printed[j].stream # printed[i].stream
          /\ printed[k].seq = 1

\* the records of file f that stem from call i of futs
RecordsOf(f, i) ==
    {n \in 1..Len(log[f]) : Sends(f)[n] = <<futs[i].handle, futs[i].label>>}

\* every handle is over (ended or dropped), nothing is under way, and no call
\* was answered with an error
AllSentNoError ==
    /\ \A h \in Handles : handles[h].state \in {"ending", "dropped"} /\ stamp[h] = <<>>
    /\ chan = <<>>
    /\ \A i \in 1..Len(futs) : futs[i].reply = "Ok"
    /\ \A h \in Handles : endFut[h] \in {"none", "Ok"}

\* C13: a send_to that was acknowledged is in the file exactly once and no
\* other record is; when all handles are over and no error occurred, the file
\* holds as many records as send_to calls were made.
C13_ExactlyOnce ==
    \A f \in Files :
        /\ \A i \in 1..Len(futs) :
              Cardinality(RecordsOf(f, i)) = IF futs[i].reply = "Ok" THEN 1 ELSE 0
        /\ \A n \in 1..Len(log[f]) : \E i \in 1..Len(futs) : n \in RecordsOf(f, i)
        /\ AllSentNoError => Len(log[f]) = Len(futs)

\* two handles have sent, three records in all, and both were ended
C13_Witness ==
    /\ AllSentNoError
    /\ \A h \in Handles : endFut[h] = "Ok" \/ handles[h].state = "dropped"
    /\ \E h \in Handles : endFut[h] = "Ok"
    /\ \A h \in Handles : sent[h] >= 1
    /\ Len(log["f"]) = MaxSends

\* a call of send_to, flush or end whose future has not resolved
SomePending ==
    \/ \E i \in 1..Len(futs) : Poll(futs[i].reply) = "pending"
    \/ \E h \in Handles : Poll(endFut[h]) = "pending"

C15_ProducerEnded ==
    /\ [][~chanOpen => chan' = chan]_vars
    /\ [][(~chanOpen /\ Len(futs') > Len(futs))
             => Poll(futs'[Len(futs')].reply) = "ProducerEnded"]_vars
    /\ [][\A h \in Handles :
             (~chanOpen /\ endFut[h] = "none" /\ endFut'[h] # "none")
                 => Poll(endFut'[h]) = "ProducerEnded"]_vars
    /\ [](\A i \in 1..Len(futs) :
             futs[i].reply = "closed" => Poll(futs[i].reply) = "ProducerEnded")
    /\ [](\A h \in Handles :
             endFut[h] = "closed" => Poll(endFut[h]) = "ProducerEnded")

\* the channel is closed, a call made after that has failed without being
\* queued, and an earlier call lost its reply channel unanswered
C15_Witness ==
    /\ ~chanOpen
    /\ \E i, j \in 1..Len(futs) :
          /\ futs[i].reply = "unsent"
          /\ Poll(futs[i].reply) = "ProducerEnded"
          /\ futs[j].reply = "closed"
          /\ Poll(futs[j].reply) = "ProducerEnded"

\* C18: a drop of a producer handle never panics, whatever was dropped
\* before it: the handle ends up dropped and no other handle is touched,
\* also when the request channel is closed or the handle was consumed by end.
C18_DropNeverPanics ==
    /\ [](\A h \in Handles : handles[h].state \in {"none", "live", "ending", "dropped"})
    /\ [][\A h \in Handles :
             (handles[h].state \in {"live", "ending"}
                 /\ handles'[h].state \notin {"live", "ending"})
             => /\ handles'[h].state = "dropped"
                /\ \A g \in Handles \ {h} : handles'[g] = handles[g]]_vars

\* every handle was dropped on the closed channel (no Drop request was queued
\* or handled: the handle count is still the number of handles made), one of
\* them after it was consumed by end
C18_Witness ==
    /\ ~chanOpen
    /\ \A h \in Handles : handles[h].state = "dropped"
    /\ \A i \in 1..Len(chan) : chan[i].data.type # "Drop"
    /\ \A f \in Files : count[f] = Cardinality({h \in Handles : handles[h].file = f})
    /\ \E h \in Handles : endFut[h] # "none"

\* the send_to calls that were accepted, in call order, and the calls whose
\* line is printed or still queued for the stdout thread
Accepted == SelectSeq([i \in 1..Len(sfut) |-> i], LAMBDA i : sfut[i].state # "Disconnected")

Handled ==
    [i \in 1..Len(printed) |-> printed[i].fut]
        \o (IF THREAD = 0 THEN <<>>
            ELSE [i \in 1..Len(signals[THREAD]) |-> signals[THREAD][i].fut])

\* C16: dropping a SendFuture before it resolves changes nothing of what is
\* written: the drop leaves the queue, the output and the writing thread as
\* they are, every accepted record is printed or queued in call order
\* whether its future was dropped or not, and the thread goes on receiving
\* after a receipt that nobody takes.
C16_DropFutureSafe ==
    /\ [](Handled = Accepted)
    /\ [](\A g \in Threads : tpc[g] # "panicked")
    /\ [][(\E i \in 1..Len(sfut) : sfut[i].state = "pending" /\ sfut'[i].state = "dropped")
             => UNCHANGED <<signals, printed, sequences, tpc, THREAD>>]_vars
    /\ [][\A g \in Threads :
             (Len(signals'[g]) < Len(signals[g]))
                 => /\ Len(printed') = Len(printed) + 1
                    /\ printed'[Len(printed')].fut = Head(signals[g]).fut
                    /\ tpc'[g] = "recv"]_vars

\* the record of a dropped future was printed, its receipt found nobody, and
\* the record of a later call was printed after it and its receipt delivered
C16_Witness ==
    \E i, j \in 1..Len(printed) :
        /\ i < j
        /\ sfut[printed[i].fut].state = "dropped"
        /\ sfut[printed[i].fut].receipt = "undelivered"
        /\ printed[i].fut < printed[j].fut
        /\ sfut[printed[j].fut].receipt = "sent"

\* C17: for the file, stdio and kafka producers, anchored() returns
\* NotAnchored as long as no anchor has succeeded; the first anchor(k)
\* succeeds; from then on every anchor fails with AlreadyAnchored and leaves
\* the key as it is, and anchored() returns k.
C17_AnchorOnce ==
    /\ [](\A p \in ProducerKinds :
             lastAnchor[p].op = "anchored"
                 => lastAnchor[p].result =
                        IF anchoredTo[p] = None THEN <<"NotAnchored">>
                        ELSE <<"Ok", anchoredTo[p]>>)
    /\ [](\A p \in ProducerKinds : anchored(self_stream[p]) =
             IF anchoredTo[p] = None THEN <<"NotAnchored">> ELSE <<"Ok", anchoredTo[p]>>)
    /\ [][\A p \in ProducerKinds :
             (lastAnchor'[p] # lastAnchor[p] /\ lastAnchor'[p].op = "anchor")
                 => IF anchoredTo[p] = None
                    THEN /\ lastAnchor'[p].result = <<"Ok">>
                         /\ anchoredTo'[p] = lastAnchor'[p].key
                    ELSE /\ lastAnchor'[p].result = <<"AlreadyAnchored">>
                         /\ self_stream'[p] = self_stream[p]
                         /\ anchoredTo'[p] = anchoredTo[p]]_vars

\* each of the three producers was anchored, one of them has since refused
\* another key, and anchored() has answered with the first key
C17_Witness ==
    /\ \A p \in ProducerKinds : anchoredTo[p] # None
    /\ \E p \in ProducerKinds :
          /\ lastAnchor[p].op = "anchor"
          /\ lastAnchor[p].result = <<"AlreadyAnchored">>
          /\ lastAnchor[p].key # anchoredTo[p]
    /\ \E p \in ProducerKinds :
          /\ lastAnchor[p].op = "anchored"
          /\ lastAnchor[p].result = <<"Ok", anchoredTo[p]>>

\* the task takes a Bytes request that fits the remaining quota, and the
\* append does not fail
TakesFitting ==
    /\ TaskTakes
    /\ Head(pending).type = "Bytes"
    /\ Len(Head(pending).bytes) <= quota
    /\ termErr' # "IoError"

C20_ErrReadyWhenClosed ==
    [][(/\ ~pendingAlive
        /\ taskPc = "sendErr"
        /\ Len(callLog') = Len(callLog) + 1)
          => lastResult' \in FileErrs]_vars

\* the task, in the loop after a served request, takes the first queued event
DrainTakes == taskPc = "drain" /\ events # <<>> /\ events' = Tail(events)

C22_RewatchLatches ==
    [][(/\ taskPc = "drain"
        /\ events # <<>> /\ Head(events) = "Rewatch"
        /\ events' = Tail(events))
          => /\ termErr' \in FileErrs
             /\ taskPc' = "sendErr"
             /\ ~pendingAlive']_vars

\* C23: a sink made over a file whose size is the quota or more appends no
\* byte to it.
C23_NoAppendOverQuota == InitSize >= limit => Len(file) = InitSize

\* C24: take returns the FileErr that was stored and leaves one of the same
\* variant and content, except that an IoError leaves DuplicateIoError; a
\* second take returns what the first one left, and after any number of
\* takes a FileErr is stored.
C24_TakeLeavesCopy ==
    /\ [][Len(takes') = Len(takes) + 1
             => /\ takes'[Len(takes')] = slot
                /\ slot' = IF slot.variant = "IoError"
                           THEN DuplicateIoError ELSE slot]_vars
    /\ [](slot \in FileErr)
    /\ [](\A i \in 2..Len(takes) :
             takes[i] = IF takes[i - 1].variant = "IoError"
                        THEN DuplicateIoError ELSE takes[i - 1])

\* an IoError was taken, then the DuplicateIoError it left, then that again
C24_Witness ==
    /\ Len(takes) >= 3
    /\ takes[1].variant = "IoError"
    /\ takes[2] = DuplicateIoError /\ takes[3] = DuplicateIoError
    /\ slot = DuplicateIoError

\* C25: whenever no transactional call is being awaited the inner producer
\* is in place, and no call on the producer panics.
C25_UsableAfterTransaction ==
    /\ running = "none" => inner = "Some"
    /\ lastKafka.result # "Panic"

\* the payloads passed to the first n calls, those of write, one after another
RECURSIVE Passed(_)
Passed(n) ==
    IF n = 0 THEN <<>>
    ELSE Passed(n - 1)
            \o (IF callLog[n].op = "write" THEN Payload(n, callLog[n].arg) ELSE <<>>)

\* the bytes the sink has added to the file it was given
Appended == SubSeq(file, InitSize + 1, Len(file))

\* C26: the bytes the sink has appended are a prefix of the payloads passed
\* to write, joined in call order.
C26_AppendedIsPrefix ==
    /\ Len(Appended) <= Len(Passed(Len(callLog)))
    /\ Appended = SubSeq(Passed(Len(callLog)), 1, Len(Appended))

\* the file holds all of a first write and a part of the second, which the
\* quota cut
C26_Witness ==
    /\ Len(callLog) = 2
    /\ callLog[1].op = "write" /\ callLog[2].op = "write"
    /\ callLog[1].arg > 0 /\ Landed(1) = callLog[1].arg
    /\ 0 < Landed(2) /\ Landed(2) < callLog[2].arg
    /\ termErr = "FileLimitExceeded"

\* C27: once the FileSink is dropped the task leaves its loop, wherever it
\* stood.
C27_TaskEndsAfterDrop == ~sinkAlive ~> taskPc = "done"

\* the FileSink was dropped with requests still queued, or with the task on
\* its way to hand over an error, and the task has ended
C27_Witness ==
    /\ ~sinkAlive /\ taskPc = "done"
    /\ Len(callLog) = 2
    /\ lastDone = 2 \/ termErr # None

\* C28: the try_lock on PRODUCERS of a newly spawned stdout thread never
\* fails: no stdout thread panics at its start.
C28_TryLockSucceeds == \A g \in Threads : tpc[g] # "panicked"

\* C29: whenever THREAD holds a sender the receiver of its stdout thread is
\* alive, and shutdown never panics on its send.
C29_ShutdownNeverPanics ==
    /\ THREAD # 0 => ReceiverAlive(THREAD)
    /\ spanic # "shutdown"

====
